---- MODULE Spec2Model ----
(***************************************************************************)
(* nautica-downloader-rs: the catalog walk (Downloader::download_all), the *)
(* per-item download and archive extraction (Downloader::download) and the *)
(* path check (enclosed_name) of src/src/lib.rs.                           *)
(***************************************************************************)
EXTENDS Integers, Sequences, FiniteSets, TLC

(***************************************************************************)
(* Bounds of the model.                                                    *)
(***************************************************************************)
\* page URLs the listing server knows: 1..NumPages (1 is the initial URL)
NumPages == 2
\* songs over all pages of the catalog
MaxSongs == 3

\* page fetches of one walk: enough for one revisit of a page
MaxFetches == NumPages + 1
\* runs of the program against the same catalog: a first run and re-runs
MaxRuns == 2

\* entries of one archive
MaxEntries == 2
\* characters of one entry name
MaxNameLen == 3
\* characters of one name handed to the path check on its own
MaxPathLen == 4
\* characters of each reading of an entry name whose two readings differ
MaxReadLen == 2
\* characters of a song id
MaxIdLen == 3

Pages == 1..NumPages
\* links.next == None: the page carries no next link
NoLink == 0

VARIABLES
  \* ---- the listing server and the disk
  catalog,    \* pages the server has served so far: page |-> [len, next]
  db,         \* meta.json: song id |-> timestamp of the record
  now,        \* Utc::now()
  \* ---- download_all
  run,        \* number of download_all calls started
  pc,         \* position of the running download_all
  next_link,  \* next_link (line 84)
  page,       \* the page songs_resp holds
  idx,        \* position of `song` in songs_resp.data (1-based)
  dl,         \* what self.download(&song.id) came back with
  ret,        \* Result<()> of download_all: "none" while running, "ok", "err"
  \* ---- history of the running walk
  fetches,    \* page URLs requested, in order
  requests,   \* song ids whose download endpoint was requested, in order
  checks,     \* song ids db.get was called with (line 93), in order
  failed,     \* song ids whose download returned an error in this walk
  fatal,      \* the fallible call of download_all that failed: "fetch", "set"
  stopped,    \* a song with a record was met in this walk
  dbAtStart,  \* db when the walk started
  \* ---- history across walks
  prevRet,    \* ret of the previous walk ("none": there is none, or it aborted)
  owed,       \* ids that failed in the previous walk and ended it unrecorded
  okEver,     \* ids whose download ever returned Ok
  \* ---- download: one archive being extracted
  x_pc,       \* position of download: "idle", "entries", "done"
  x_n,        \* archive.len()
  x_i,        \* i of the loop over the entries (1-based)
  x_kind,     \* what became of the entry last taken from the archive
  x_via,      \* the reading its path came from: "decoded", "container"
  x_ncomp,    \* the number of components of that reading
  x_files,    \* files in <dest>/<song id>: filename |-> content
  x_status,   \* how download ended: "ok", "err", "panic"
  x_rejected, \* indices of the entries skipped as invalid paths
  x_old,      \* files <dest>/<song id> held before this download
  x_seen,     \* the entries the loop has finished: what became of each
  \* ---- the path check on its own
  s_name,     \* the decoded name handed to enclosed_name
  s_out,      \* what came of it
  \* ---- the choice of an entry's name on its own
  d_entry,    \* the entry
  d_out,      \* the name it is extracted under, once chosen
  \* ---- the directory of a song on its own
  i_id,       \* song.id as the listing server gave it
  i_out       \* dest of download (line 125), once joined

store == <<catalog, db, now>>
posn  == <<next_link, page, idx>>
hist  == <<fetches, requests, checks, failed, fatal, stopped>>
xrun  == <<run, dbAtStart, prevRet, owed>>
xlast == <<x_kind, x_via, x_ncomp>>
xhist == <<x_old, x_seen>>
xvars == <<x_pc, x_n, x_i, x_kind, x_via, x_ncomp, x_files, x_status,
           x_rejected, xhist>>
svars == <<s_name, s_out, d_entry, d_out, i_id, i_out>>
wvars == <<catalog, db, now, run, pc, next_link, page, idx, dl, ret,
           fetches, requests, checks, failed, fatal, stopped, dbAtStart,
           prevRet, owed, okEver>>

(***************************************************************************)
(* Data                                                                    *)
(***************************************************************************)
\* Song.id of the idx-th song of a page: identifiers are unique per song
SongId(p, i) == <<p, i>>

\* SongsResp: data (its length; song i of page p is SongId(p, i)) and links.next
SongsResp == [len : 0..MaxSongs, next : {NoLink} \cup Pages]

RECURSIVE SumLen(_, _)
SumLen(cat, ps) ==
  IF ps = {} THEN 0
  ELSE LET p == CHOOSE q \in ps : TRUE
       IN cat[p].len + SumLen(cat, ps \ {p})

\* songs of the pages served so far
SongCount(cat) == SumLen(cat, DOMAIN cat)

EmptyDb == [id \in {} |-> 0]

\* db.get::<DateTime<Utc>>(&song.id).is_some()
HasRecord_Never(id) == FALSE
HasRecord(id) == id \in DOMAIN db

\* db.set(&song.id, &Utc::now()) that succeeded: the record is in meta.json
DbSet_Fresh(d, id, t) == (id :> t)
DbSet(d, id, t) == (id :> t) @@ d

Range(s) == {s[k] : k \in 1..Len(s)}

song == SongId(page, idx)
InLoop == pc = "items" /\ idx <= catalog[page].len
Returned == pc = "returned"

(***************************************************************************)
(* Init: a fresh destination directory, no meta.json, nothing running.     *)
(***************************************************************************)
WalkInit ==
  /\ catalog = [p \in {} |-> 0]
  /\ db = EmptyDb
  /\ now = 1
  /\ run = 0
  /\ pc = "idle"
  /\ next_link = NoLink
  /\ page = NoLink
  /\ idx = 0
  /\ dl = "none"
  /\ ret = "none"
  /\ fetches = <<>>
  /\ requests = <<>>
  /\ checks = <<>>
  /\ failed = {}
  /\ fatal = "none"
  /\ stopped = FALSE
  /\ dbAtStart = EmptyDb
  /\ prevRet = "none"
  /\ owed = {}
  /\ okEver = {}

(***************************************************************************)
(* download_all (lines 79-118)                                             *)
(***************************************************************************)
\* lines 80-84: open or create meta.json, start at the listing URL
StartWalk ==
  /\ pc \in {"idle", "returned", "aborted"}
  /\ run < MaxRuns
  /\ run' = run + 1
  /\ pc' = "fetch"
  /\ next_link' = 1
  /\ page' = NoLink
  /\ idx' = 0
  /\ dl' = "none"
  /\ ret' = "none"
  /\ fetches' = <<>>
  /\ requests' = <<>>
  /\ checks' = <<>>
  /\ failed' = {}
  /\ fatal' = "none"
  /\ stopped' = FALSE
  /\ dbAtStart' = db
  /\ prevRet' = ret
  /\ owed' = failed \ DOMAIN db
  /\ UNCHANGED <<store, okEver, xvars, svars>>

\* lines 87-88, both succeed: the server serves the page of next_link; an
\* unchanged catalog serves the same page for the same URL every time
FetchPageOk ==
  /\ pc = "fetch"
  /\ Len(fetches) < MaxFetches
  /\ \E resp \in SongsResp :
       /\ IF next_link \in DOMAIN catalog
          THEN resp = catalog[next_link]
          ELSE SongCount(catalog) + resp.len <= MaxSongs
       /\ catalog' = (next_link :> resp) @@ catalog
  /\ fetches' = Append(fetches, next_link)
  /\ page' = next_link
  /\ idx' = 1
  /\ pc' = "items"
  /\ UNCHANGED <<db, now, next_link, dl, ret, requests, checks, failed, fatal,
                 stopped, xrun, okEver, xvars, svars>>

\* lines 87-88, send()? or json_utf8()? fails: download_all returns the error
FetchPageErr_Retry ==
  /\ pc = "fetch"
  /\ Len(fetches) < MaxFetches
  /\ fetches' = Append(fetches, next_link)
  /\ fatal' = "fetch"
  /\ UNCHANGED <<store, pc, posn, dl, ret, requests, checks, failed, stopped,
                 xrun, okEver, xvars, svars>>
FetchPageErr ==
  /\ pc = "fetch"
  /\ Len(fetches) < MaxFetches
  /\ fetches' = Append(fetches, next_link)
  /\ fatal' = "fetch"
  /\ pc' = "returned"
  /\ ret' = "err"
  /\ UNCHANGED <<store, posn, dl, requests, checks, failed, stopped, xrun,
                 okEver, xvars, svars>>

\* lines 93-100: the song has a record: break 'outer, then Ok(()) (line 117)
SongKnown_BreakInner ==
  /\ InLoop
  /\ HasRecord(song)
  /\ checks' = Append(checks, song)
  /\ stopped' = TRUE
  /\ idx' = catalog[page].len + 1
  /\ UNCHANGED <<store, pc, next_link, page, dl, ret, fetches, requests,
                 failed, fatal, xrun, okEver, xvars, svars>>
SongKnown ==
  /\ InLoop
  /\ HasRecord(song)
  /\ checks' = Append(checks, song)
  /\ stopped' = TRUE
  /\ pc' = "returned"
  /\ ret' = "ok"
  /\ UNCHANGED <<store, posn, dl, fetches, requests, failed, fatal, xrun,
                 okEver, xvars, svars>>

\* lines 93, 102-104, 121-124: no record: GET {base_url}/songs/{id}/download
SongRequest ==
  /\ InLoop
  /\ ~HasRecord(song)
  /\ checks' = Append(checks, song)
  /\ requests' = Append(requests, song)
  /\ pc' = "download"
  /\ UNCHANGED <<store, posn, dl, ret, fetches, failed, fatal, stopped, xrun,
                 okEver, xvars, svars>>

\* line 104: self.download(&song.id) returns Ok(())
DownloadOk ==
  /\ pc = "download"
  /\ dl' = "ok"
  /\ okEver' = okEver \cup {song}
  /\ pc' = "downloaded"
  /\ UNCHANGED <<store, posn, ret, hist, xrun, xvars, svars>>

\* line 104: self.download(&song.id) returns Err(_)
DownloadErr_Propagate ==
  /\ pc = "download"
  /\ dl' = "err"
  /\ failed' = failed \cup {song}
  /\ pc' = "returned"
  /\ ret' = "err"
  /\ UNCHANGED <<store, posn, fetches, requests, checks, fatal, stopped,
                 xrun, okEver, xvars, svars>>
DownloadErr ==
  /\ pc = "download"
  /\ dl' = "err"
  /\ failed' = failed \cup {song}
  /\ pc' = "downloaded"
  /\ UNCHANGED <<store, posn, ret, fetches, requests, checks, fatal, stopped,
                 xrun, okEver, xvars, svars>>

\* line 162: self.download(&song.id) panics (unwrap of None): the process
\* aborts inside download_all, which returns nothing
DownloadPanic ==
  /\ pc = "download"
  /\ dl' = "panic"
  /\ pc' = "aborted"
  /\ UNCHANGED <<store, posn, ret, hist, xrun, okEver, xvars, svars>>

\* lines 104-105: download was Ok, db.set succeeds; on to the next song
SetRecordOk ==
  /\ pc = "downloaded"
  /\ dl = "ok"
  /\ db' = DbSet(db, song, now)
  /\ now' = now + 1
  /\ idx' = idx + 1
  /\ dl' = "none"
  /\ pc' = "items"
  /\ UNCHANGED <<catalog, next_link, page, ret, hist, xrun, okEver, xvars,
                 svars>>

\* line 105: db.set(...)? fails: download_all returns the error; meta.json
\* keeps its last dumped content
SetRecordErr ==
  /\ pc = "downloaded"
  /\ dl = "ok"
  /\ fatal' = "set"
  /\ pc' = "returned"
  /\ ret' = "err"
  /\ UNCHANGED <<store, posn, dl, fetches, requests, checks, failed, stopped,
                 xrun, okEver, xvars, svars>>

\* lines 106-108: download was Err: warn, on to the next song
WarnFailed_Record ==
  /\ pc = "downloaded"
  /\ dl = "err"
  /\ db' = DbSet(db, song, now)
  /\ now' = now + 1
  /\ idx' = idx + 1
  /\ dl' = "none"
  /\ pc' = "items"
  /\ UNCHANGED <<catalog, next_link, page, ret, hist, xrun, okEver, xvars,
                 svars>>
WarnFailed_Return ==
  /\ pc = "downloaded"
  /\ dl = "err"
  /\ pc' = "returned"
  /\ ret' = "err"
  /\ UNCHANGED <<store, posn, dl, hist, xrun, okEver, xvars, svars>>
WarnFailed_Retry ==
  /\ pc = "downloaded"
  /\ dl = "err"
  /\ dl' = "none"
  /\ pc' = "items"
  /\ UNCHANGED <<store, posn, ret, hist, xrun, okEver, xvars, svars>>
WarnFailed ==
  /\ pc = "downloaded"
  /\ dl = "err"
  /\ idx' = idx + 1
  /\ dl' = "none"
  /\ pc' = "items"
  /\ UNCHANGED <<store, next_link, page, ret, hist, xrun, okEver, xvars,
                 svars>>

\* lines 111-112: the songs of the page are done and it has a next link
NextPage_Stay ==
  /\ pc = "items"
  /\ idx > catalog[page].len
  /\ catalog[page].next # NoLink
  /\ pc' = "fetch"
  /\ UNCHANGED <<store, posn, dl, ret, hist, xrun, okEver, xvars, svars>>
NextPage ==
  /\ pc = "items"
  /\ idx > catalog[page].len
  /\ catalog[page].next # NoLink
  /\ next_link' = catalog[page].next
  /\ pc' = "fetch"
  /\ UNCHANGED <<store, page, idx, dl, ret, hist, xrun, okEver, xvars, svars>>

\* lines 113-117: the songs of the page are done, no next link: break, Ok(())
LastPage ==
  /\ pc = "items"
  /\ idx > catalog[page].len
  /\ catalog[page].next = NoLink
  /\ pc' = "returned"
  /\ ret' = "ok"
  /\ UNCHANGED <<store, posn, dl, hist, xrun, okEver, xvars, svars>>

(***************************************************************************)
(* Paths (std::path on Unix) and enclosed_name (lines 171-186)             *)
(***************************************************************************)
\* A name is a sequence of characters, each standing for its class: "a" a
\* character of a normal name, "." a dot, "/" the separator, "0" NUL.
Chars == {"a", ".", "/", "0"}
Names == UNION {[1..k -> Chars] : k \in 0..MaxNameLen}
PathNames == UNION {[1..k -> Chars] : k \in 0..MaxPathLen}

\* Option<T>
None == [some |-> FALSE, val |-> <<>>]
Some(v) == [some |-> TRUE, val |-> v]

\* the pieces of a name between its separators (empty pieces included)
RECURSIVE Split(_)
Split(s) ==
  IF s = <<>> THEN << <<>> >>
  ELSE LET r == Split(Tail(s))
       IN IF Head(s) = "/" THEN << <<>> >> \o r
          ELSE << <<Head(s)>> \o Head(r) >> \o Tail(r)

\* Path::components(): a leading separator is RootDir, empty pieces and "."
\* are dropped except a "." that starts a path without root, ".." is
\* ParentDir, the rest Normal (Prefix does not occur on Unix)
Components(s) ==
  LET segs == Split(s)
      root == s # <<>> /\ s[1] = "/"
      comp(k) ==
        IF segs[k] = <<>> THEN [kind |-> "skip", text |-> <<>>]
        ELSE IF segs[k] = <<".">>
          THEN IF k = 1 THEN [kind |-> "CurDir", text |-> segs[k]]
               ELSE [kind |-> "skip", text |-> <<>>]
        ELSE IF segs[k] = <<".", ".">>
          THEN [kind |-> "ParentDir", text |-> segs[k]]
        ELSE [kind |-> "Normal", text |-> segs[k]]
      all == [k \in 1..Len(segs) |-> comp(k)]
      kept(c) == c.kind # "skip"
  IN (IF root THEN << [kind |-> "RootDir", text |-> <<"/">>] >> ELSE <<>>)
       \o SelectSeq(all, kept)

\* lines 176-184: the loop over the components from k on, at `depth`;
\* TRUE when it ends without returning None
RECURSIVE DepthLoop_NoCheck(_, _, _)
DepthLoop_NoCheck(cs, k, depth) ==
  IF k > Len(cs) THEN TRUE
  ELSE IF cs[k].kind = "RootDir" THEN FALSE
  ELSE IF cs[k].kind = "ParentDir"
    THEN DepthLoop_NoCheck(cs, k + 1, IF depth = 0 THEN 0 ELSE depth - 1)
  ELSE IF cs[k].kind = "Normal" THEN DepthLoop_NoCheck(cs, k + 1, depth + 1)
  ELSE DepthLoop_NoCheck(cs, k + 1, depth)
RECURSIVE DepthLoop(_, _, _)
DepthLoop(cs, k, depth) ==
  IF k > Len(cs) THEN TRUE
  ELSE IF cs[k].kind = "RootDir" THEN FALSE
  ELSE IF cs[k].kind = "ParentDir"
    THEN IF depth = 0 THEN FALSE ELSE DepthLoop(cs, k + 1, depth - 1)
  ELSE IF cs[k].kind = "Normal" THEN DepthLoop(cs, k + 1, depth + 1)
  ELSE DepthLoop(cs, k + 1, depth)

\* enclosed_name(file_name): Some(path) with path the whole name, or None
enclosed_name(file_name) ==
  IF \E k \in 1..Len(file_name) : file_name[k] = "0" THEN None
  ELSE IF DepthLoop(Components(file_name), 1, 0) THEN Some(file_name)
  ELSE None

\* Path::file_name(): the last component when it is Normal, else None
file_name_Whole(path) == Some(path)
file_name(path) ==
  LET cs == Components(path)
  IN IF cs # <<>> /\ cs[Len(cs)].kind = "Normal"
     THEN Some(cs[Len(cs)].text)
     ELSE None

(***************************************************************************)
(* download (lines 120-168)                                                *)
(***************************************************************************)
\* An archive entry, by the two readings of the raw bytes of its name: name,
\* the container's reading (file.name()), cow, the text the detected
\* encoding decodes them to, and had_errors, whether they are invalid in it.
\* The two readings are any two names up to MaxReadLen characters, or one
\* name up to MaxNameLen characters that both readings give.
ReadNames == UNION {[1..k -> Chars] : k \in 0..MaxReadLen}
Readings == [name : ReadNames, cow : ReadNames, had_errors : BOOLEAN]
Entries ==
  Readings \cup {[name |-> n, cow |-> n, had_errors |-> g] :
                   n \in Names, g \in BOOLEAN}

\* file.name(), the container's reading of the raw name
ContainerName(e) == e.name
\* line 147: encoding.decode(file.name_raw()): (cow, _, had_errors)
Decode(e) == [cow |-> e.cow, had_errors |-> e.had_errors]
\* line 149: ZipFile::enclosed_name(), the same check on the container's name
zip_enclosed_name(e) == enclosed_name(ContainerName(e))
\* line 135: file.name().ends_with('/')
IsDir(e) ==
  LET n == ContainerName(e) IN n # <<>> /\ n[Len(n)] = "/"

\* lines 143-152: the name the entry is extracted under, or None
EnclosedOf_Fallback(e) ==
  IF Decode(e).had_errors \/ ~enclosed_name(Decode(e).cow).some
  THEN zip_enclosed_name(e)
  ELSE enclosed_name(Decode(e).cow)
EnclosedOf(e) ==
  IF Decode(e).had_errors THEN zip_enclosed_name(e)
  ELSE enclosed_name(Decode(e).cow)

\* line 162: filepath.file_name(); None is what unwrap() panics on
FilenameOf(e) == file_name(EnclosedOf(e).val)

\* the entries by the branch of the loop body they take
DirEntries == {e \in Entries : IsDir(e)}
InvalidEntries == {e \in Entries : ~IsDir(e) /\ ~EnclosedOf(e).some}
PanicEntries ==
  {e \in Entries : ~IsDir(e) /\ EnclosedOf(e).some /\ ~FilenameOf(e).some}
FileEntries ==
  {e \in Entries : ~IsDir(e) /\ EnclosedOf(e).some /\ FilenameOf(e).some}

\* which reading of the raw name the entry's path came from (lines 148-152)
Via(e) == IF Decode(e).had_errors THEN "container" ELSE "decoded"
\* the components of that reading
NComp(e) == Len(Components(IF Decode(e).had_errors THEN ContainerName(e)
                           ELSE Decode(e).cow))

\* what the loop body reads of an entry: the filename it is written under
\* (None where there is none), and where its path came from
Effect(e) == [file |-> IF EnclosedOf(e).some THEN FilenameOf(e) ELSE None,
              via |-> Via(e), ncomp |-> NComp(e)]
InvalidEffects == {Effect(e) : e \in InvalidEntries}
PanicEffects == {Effect(e) : e \in PanicEntries}
FileEffects == {Effect(e) : e \in FileEntries}

\* a file written whole by entry i holds i; a file cut short holds 0
Partial == 0
\* what a file left by an earlier download of the song holds
Old == -1
\* the name of such a file
OldName == <<"a">>
NoFiles == [f \in {} |-> 0]
\* the mark of an entry that no file was written for
NoFile == <<>>

ExtractIdle ==
  /\ x_pc = "idle"
  /\ x_n = 0
  /\ x_i = 0
  /\ x_kind = "none"
  /\ x_via = "none"
  /\ x_ncomp = 0
  /\ x_files = NoFiles
  /\ x_status = "none"
  /\ x_rejected = {}
  /\ x_old = NoFiles
  /\ x_seen = <<>>

\* before a download: <dest>/<song id> does not exist, or an earlier
\* download of the song left a file in it (line 126: the directory is kept)
ExtractStart ==
  /\ x_pc = "idle"
  /\ x_n = 0
  /\ x_i = 0
  /\ x_kind = "none"
  /\ x_via = "none"
  /\ x_ncomp = 0
  /\ x_old \in {NoFiles, (OldName :> Old)}
  /\ x_files = x_old
  /\ x_status = "none"
  /\ x_rejected = {}
  /\ x_seen = <<>>

\* lines 121-130 succeed: the response is a zip archive of x_n entries
DlBegin ==
  /\ x_pc = "idle"
  /\ \E n \in 0..MaxEntries : x_n' = n
  /\ x_i' = 1
  /\ x_pc' = "entries"
  /\ UNCHANGED <<xlast, x_files, x_status, x_rejected, xhist, wvars, svars>>

\* lines 121-130: send()?, create_dir()?, bytes()? or ZipArchive::new()? fails
DlBeginErr ==
  /\ x_pc = "idle"
  /\ x_pc' = "done"
  /\ x_status' = "err"
  /\ UNCHANGED <<x_n, x_i, xlast, x_files, x_rejected, xhist, wvars, svars>>

AtEntry == x_pc = "entries" /\ x_i <= x_n

\* line 133: archive.by_index(i)? fails: download returns the error
EntryOpenErr ==
  /\ AtEntry
  /\ x_kind' = "open_err"
  /\ x_via' = "none"
  /\ x_ncomp' = 0
  /\ x_pc' = "done"
  /\ x_status' = "err"
  /\ UNCHANGED <<x_n, x_i, x_files, x_rejected, xhist, wvars, svars>>

\* lines 135-137: a directory entry: continue
EntryDir ==
  /\ AtEntry
  /\ DirEntries # {}
  /\ x_via' = "none"
  /\ x_ncomp' = 0
  /\ x_kind' = "dir"
  /\ x_seen' = Append(x_seen, [kind |-> "dir", file |-> NoFile])
  /\ x_i' = x_i + 1
  /\ UNCHANGED <<x_pc, x_n, x_files, x_status, x_rejected, x_old, wvars,
                 svars>>

\* lines 153-158: no enclosed name: warn and continue
EntryInvalid_Bail ==
  /\ AtEntry
  /\ \E e \in InvalidEffects :
       /\ x_via' = e.via
       /\ x_ncomp' = e.ncomp
  /\ x_kind' = "invalid"
  /\ x_rejected' = x_rejected \cup {x_i}
  /\ x_pc' = "done"
  /\ x_status' = "err"
  /\ UNCHANGED <<x_n, x_i, x_files, xhist, wvars, svars>>
EntryInvalid ==
  /\ AtEntry
  /\ \E e \in InvalidEffects :
       /\ x_via' = e.via
       /\ x_ncomp' = e.ncomp
  /\ x_kind' = "invalid"
  /\ x_rejected' = x_rejected \cup {x_i}
  /\ x_seen' = Append(x_seen, [kind |-> "invalid", file |-> NoFile])
  /\ x_i' = x_i + 1
  /\ UNCHANGED <<x_pc, x_n, x_files, x_status, x_old, wvars, svars>>

\* line 162: file_name() is None: unwrap() panics
EntryPanic ==
  /\ AtEntry
  /\ \E e \in PanicEffects :
       /\ x_via' = e.via
       /\ x_ncomp' = e.ncomp
  /\ x_kind' = "panic"
  /\ x_pc' = "done"
  /\ x_status' = "panic"
  /\ UNCHANGED <<x_n, x_i, x_files, x_rejected, xhist, wvars, svars>>

\* line 163: fs::File::create(dest.join(filename))? fails
EntryCreateErr ==
  /\ AtEntry
  /\ \E e \in FileEffects :
       /\ x_via' = e.via
       /\ x_ncomp' = e.ncomp
  /\ x_kind' = "create_err"
  /\ x_pc' = "done"
  /\ x_status' = "err"
  /\ UNCHANGED <<x_n, x_i, x_files, x_rejected, xhist, wvars, svars>>

\* lines 163-164: the file is created (truncated), io::copy(...)? fails
EntryCopyErr ==
  /\ AtEntry
  /\ \E e \in FileEffects :
       /\ x_via' = e.via
       /\ x_ncomp' = e.ncomp
       /\ x_files' = (e.file.val :> Partial) @@ x_files
  /\ x_kind' = "copy_err"
  /\ x_pc' = "done"
  /\ x_status' = "err"
  /\ UNCHANGED <<x_n, x_i, x_rejected, xhist, wvars, svars>>

\* lines 162-164: the entry is written to <dest>/<song id>/<filename>
EntryWritten_KeepFirst ==
  /\ AtEntry
  /\ \E e \in FileEffects :
       /\ x_via' = e.via
       /\ x_ncomp' = e.ncomp
       /\ x_seen' = Append(x_seen, [kind |-> "written", file |-> e.file.val])
       /\ x_files' = x_files @@ (e.file.val :> x_i)
  /\ x_kind' = "written"
  /\ x_i' = x_i + 1
  /\ UNCHANGED <<x_pc, x_n, x_status, x_rejected, x_old, wvars, svars>>
EntryWritten ==
  /\ AtEntry
  /\ \E e \in FileEffects :
       /\ x_via' = e.via
       /\ x_ncomp' = e.ncomp
       /\ x_seen' = Append(x_seen, [kind |-> "written", file |-> e.file.val])
       /\ x_files' = (e.file.val :> x_i) @@ x_files
  /\ x_kind' = "written"
  /\ x_i' = x_i + 1
  /\ UNCHANGED <<x_pc, x_n, x_status, x_rejected, x_old, wvars, svars>>

\* line 167: every entry is done: Ok(())
DlFinish ==
  /\ x_pc = "entries"
  /\ x_i > x_n
  /\ x_kind' = "none"
  /\ x_via' = "none"
  /\ x_ncomp' = 0
  /\ x_pc' = "done"
  /\ x_status' = "ok"
  /\ UNCHANGED <<x_n, x_i, x_files, x_rejected, xhist, wvars, svars>>

(***************************************************************************)
(* The path check on its own: enclosed_name, then file_name (line 162)     *)
(***************************************************************************)
Pending == [accepted |-> FALSE, file |-> None, done |-> FALSE]

\* lines 139-160 for one entry that is not a directory
Unnamed == [path |-> None, done |-> FALSE]
NameIdle ==
  /\ d_entry = [name |-> <<>>, cow |-> <<>>, had_errors |-> FALSE]
  /\ d_out = Unnamed
NameStart ==
  /\ d_entry \in Readings \ DirEntries
  /\ d_out = Unnamed
NameApply ==
  /\ ~d_out.done
  /\ d_out' = [path |-> EnclosedOf(d_entry), done |-> TRUE]
  /\ UNCHANGED <<d_entry, s_name, s_out, i_id, i_out, wvars, xvars>>

\* self.dest: the destination directory (main.rs line 22: it exists)
Dest == <<"/", "a">>
IdNames == UNION {[1..k -> Chars] : k \in 0..MaxIdLen}
\* Path::join: an absolute path replaces the base, any other is appended
\* after a separator
Join(base, path) ==
  IF path # <<>> /\ path[1] = "/" THEN path
  ELSE IF base # <<>> /\ base[Len(base)] = "/" THEN base \o path
  ELSE base \o <<"/">> \o path

\* lines 125-128 for one song id
Unjoined == [dest |-> <<>>, done |-> FALSE]
DirIdle ==
  /\ i_id = <<>>
  /\ i_out = Unjoined
DirStart ==
  /\ i_id \in IdNames
  /\ i_out = Unjoined
DirApply ==
  /\ ~i_out.done
  /\ i_out' = [dest |-> Join(Dest, i_id), done |-> TRUE]
  /\ UNCHANGED <<i_id, s_name, s_out, d_entry, d_out, wvars, xvars>>

SanIdle ==
  /\ s_name = <<>>
  /\ s_out = Pending
  /\ NameIdle
  /\ DirIdle

SanStart ==
  /\ s_name \in PathNames
  /\ s_out = Pending
  /\ NameIdle
  /\ DirIdle

\* lines 151-162 for one decoded name
SanApply ==
  /\ ~s_out.done
  /\ s_out' = [accepted |-> enclosed_name(s_name).some,
               file |-> IF enclosed_name(s_name).some
                        THEN file_name(enclosed_name(s_name).val)
                        ELSE None,
               done |-> TRUE]
  /\ UNCHANGED <<s_name, d_entry, d_out, i_id, i_out, wvars, xvars>>

(***************************************************************************)
(* Specifications                                                          *)
(***************************************************************************)
vars == <<wvars, xvars, svars>>

\* the catalog walk, with download(id) as the walk sees it: Ok, Err or panic
Init == WalkInit /\ ExtractIdle /\ SanIdle
Next ==
  \/ StartWalk
  \/ FetchPageOk
  \/ FetchPageErr
  \/ SongKnown
  \/ SongRequest
  \/ DownloadOk
  \/ DownloadErr
  \/ DownloadPanic
  \/ SetRecordOk
  \/ SetRecordErr
  \/ WarnFailed
  \/ NextPage
  \/ LastPage
Spec == Init /\ [][Next]_vars

\* one download(id), entry by entry
ExtractInit == WalkInit /\ ExtractStart /\ SanIdle
ExtractNext ==
  \/ DlBegin
  \/ DlBeginErr
  \/ EntryOpenErr
  \/ EntryDir
  \/ EntryInvalid
  \/ EntryPanic
  \/ EntryCreateErr
  \/ EntryCopyErr
  \/ EntryWritten
  \/ DlFinish
ExtractSpec == ExtractInit /\ [][ExtractNext]_vars

\* the path check applied to every name
SanInit == WalkInit /\ ExtractIdle /\ SanStart
SanNext == SanApply
SanSpec == SanInit /\ [][SanNext]_vars

\* the choice of the name applied to every entry that is not a directory
NameInit ==
  /\ WalkInit
  /\ ExtractIdle
  /\ s_name = <<>>
  /\ s_out = Pending
  /\ NameStart
  /\ DirIdle
NameNext == NameApply
NameSpec == NameInit /\ [][NameNext]_vars

\* the directory of a song for every song id
DirInit ==
  /\ WalkInit
  /\ ExtractIdle
  /\ s_name = <<>>
  /\ s_out = Pending
  /\ NameIdle
  /\ DirStart
DirNext == DirApply
DirSpec == DirInit /\ [][DirNext]_vars

(***************************************************************************)
(* Properties                                                              *)
(***************************************************************************)
NoSong == SongId(NoLink, 0)

\* the first song in catalog order: the first song of the first page, along
\* the next links from the listing URL, that has songs
RECURSIVE FirstSongFrom(_, _, _)
FirstSongFrom(cat, p, fuel) ==
  IF fuel = 0 \/ p \notin DOMAIN cat THEN NoSong
  ELSE IF cat[p].len > 0 THEN SongId(p, 1)
  ELSE FirstSongFrom(cat, cat[p].next, fuel - 1)
FirstSong(cat) == FirstSongFrom(cat, 1, NumPages)

\* C1: once a song that has a record is met, the walk returns Ok at once:
\* from then on, within this walk, no download is requested and no page is
\* fetched
C1_StopAtKnown ==
  [][ /\ (InLoop /\ HasRecord(song)) =>
           /\ pc' = "returned"
           /\ ret' = "ok"
           /\ requests' = requests
           /\ fetches' = fetches
      /\ (stopped /\ run' = run) =>
           /\ pc' = pc
           /\ requests' = requests
           /\ fetches' = fetches ]_vars

\* C1 witness: the walk stopped at a recorded song after requesting others,
\* with songs left on the page and a next link on it
C1_Witness ==
  /\ Returned
  /\ stopped
  /\ requests # <<>>
  /\ idx < catalog[page].len
  /\ catalog[page].next # NoLink

C3_Orig ==
  (run >= 2 /\ Returned /\ ret = "ok" /\ prevRet = "ok")
    => owed \subseteq Range(requests)

\* C4 as stated: after a failed download the walk goes on with the next
\* song, and a walk none of whose page fetches failed returns Ok
C4_Orig ==
  [][ /\ (pc = "downloaded" /\ dl = "err") =>
           /\ pc' = "items"
           /\ page' = page
           /\ idx' = idx + 1
           /\ ret' = "none"
      /\ (pc' = "returned" /\ fatal' # "fetch") => ret' = "ok" ]_vars

\* C4 as amended: after a failed download the walk goes on with the next
\* song, and a walk none of whose page fetches and record writes failed
\* returns Ok, however many downloads failed
C4_FailedDownloadContinues ==
  [][ /\ (pc = "downloaded" /\ dl = "err") =>
           /\ pc' = "items"
           /\ page' = page
           /\ idx' = idx + 1
           /\ ret' = "none"
      /\ (pc' = "returned" /\ fatal' = "none") => ret' = "ok" ]_vars

\* C4 witness: a walk returned Ok over two pages with two failed downloads,
\* one of them followed by a further request
C4_Witness ==
  /\ Returned
  /\ ret = "ok"
  /\ Cardinality(failed) >= 2
  /\ Len(fetches) >= 2
  /\ \E k \in 1..Len(requests) - 1 : requests[k] \in failed

\* C5: the store changes only in the step that follows a download that
\* returned Ok, by the record of that song alone; the walk does not go on to
\* the next song without it; no song is recorded whose download never
\* returned Ok
C5_RecordAfterSuccess ==
  [][ /\ (db' # db) =>
           /\ pc = "downloaded"
           /\ dl = "ok"
           /\ DOMAIN db' = DOMAIN db \cup {song}
           /\ \A id \in DOMAIN db : db'[id] = db[id]
      /\ (pc = "downloaded" /\ dl = "ok" /\ pc' = "items") =>
           song \in DOMAIN db'
      /\ DOMAIN db' \subseteq okEver' ]_vars

\* C5 witness: the walk is at the next song with a record written in this
\* walk and a failed song left without one
C5_Witness ==
  /\ pc = "items"
  /\ failed \ DOMAIN db # {}
  /\ DOMAIN db # DOMAIN dbAtStart

\* C6: every file download creates is named by a single normal component:
\* it lies directly inside <dest>/<song id>
DirectChild(f) == Components(f) = << [kind |-> "Normal", text |-> f] >>
C6_FilesInsideItemDir == \A f \in DOMAIN x_files : DirectChild(f)

\* C6 witness: a file was written for an entry whose name has several
\* components
C6_Witness ==
  /\ x_kind = "written"
  /\ x_ncomp >= 2
  /\ x_files # <<>>

\* the three grounds of rejection, read off the pieces of the name
HasNul(n) == \E k \in 1..Len(n) : n[k] = "0"
IsAbsolute(n) == n # <<>> /\ n[1] = "/"
IsParent(sg) == sg = <<".", ".">>
IsNormal(sg) == sg # <<>> /\ sg # <<".">> /\ ~IsParent(sg)
DepthBefore(n, k) ==
  Cardinality({j \in 1..(k - 1) : IsNormal(Split(n)[j])})
    - Cardinality({j \in 1..(k - 1) : IsParent(Split(n)[j])})
ParentAtZero(n) ==
  \E k \in 1..Len(Split(n)) : IsParent(Split(n)[k]) /\ DepthBefore(n, k) = 0
Rejectable(n) == HasNul(n) \/ IsAbsolute(n) \/ ParentAtZero(n)

\* C7 as stated, for the names that have a normal component: a name is
\* rejected exactly when it has a NUL, is absolute or has a ".." at depth 0,
\* and every other name is accepted with its last component as the filename
C7_Orig ==
  (s_out.done /\ \E k \in 1..Len(Split(s_name)) : IsNormal(Split(s_name)[k]))
    => /\ s_out.accepted <=> ~Rejectable(s_name)
       /\ ~Rejectable(s_name) =>
            /\ s_out.file.some
            /\ s_out.file.val =
                 Components(s_name)[Len(Components(s_name))].text

\* C8: the step in which a page fetch fails returns Err and leaves the
\* store as it is, and nothing more is fetched, requested or recorded in
\* this walk
C8_FetchFailureFatal ==
  [][ /\ (fatal # "fetch" /\ fatal' = "fetch") =>
           /\ pc' = "returned"
           /\ ret' = "err"
           /\ db' = db
           /\ requests' = requests
      /\ (fatal = "fetch" /\ run' = run) =>
           /\ pc' = pc
           /\ ret' = ret
           /\ db' = db
           /\ requests' = requests
           /\ fetches' = fetches ]_vars

\* C8 witness: a fetch of a later page failed after records were written
C8_Witness ==
  /\ Returned
  /\ fatal = "fetch"
  /\ Len(fetches) >= 2
  /\ DOMAIN db # DOMAIN dbAtStart

\* C9 as stated: download_all returns Err only when a page fetch failed
C9_Orig == (Returned /\ ret = "err") => fatal = "fetch"

\* C9 as amended: download_all returns Err only when a page fetch or the
\* write of a record failed, never for a failed download
C9_OnlyFatal == (Returned /\ ret = "err") => fatal \in {"fetch", "set"}

\* C9 witness: the walk returned Err for a record write, after a download
\* had failed
C9_Witness ==
  /\ Returned
  /\ ret = "err"
  /\ fatal = "set"
  /\ failed # {}

SeenAs(kind) == {k \in DOMAIN x_seen : x_seen[k].kind = kind}
\* no two entries written so far share their final component
DistinctFinal ==
  \A j, k \in SeenAs("written") : x_seen[j].file = x_seen[k].file => j = k
\* the destination held nothing when download began
Fresh == x_old = NoFiles

\* C11 as stated: when no entry is rejected, the final components are
\* distinct and no call fails, download into a fresh destination returns Ok
\* and <dest>/<song id> holds exactly one file for each entry that is not a
\* directory, named by its final component and holding its content; the
\* directory entries leave nothing
C11_Orig ==
  (x_pc = "done" /\ Fresh /\ x_status # "err" /\ x_rejected = {}
     /\ DistinctFinal)
    => /\ x_status = "ok"
       /\ DOMAIN x_files = {x_seen[k].file : k \in SeenAs("written")}
       /\ Cardinality(DOMAIN x_files) = x_n - Cardinality(SeenAs("dir"))
       /\ \A k \in SeenAs("written") : x_files[x_seen[k].file] = k

\* the first page fetched is the listing URL, and every later one is the
\* next link of the page fetched before it
FollowsLinks ==
  /\ fetches # <<>> => fetches[1] = 1
  /\ \A k \in 2..Len(fetches) :
       /\ fetches[k - 1] \in DOMAIN catalog
       /\ fetches[k] = catalog[fetches[k - 1]].next
NoRefetch ==
  \A j, k \in 1..Len(fetches) : fetches[j] = fetches[k] => j = k
\* a next link the walk followed names a page the walk had fetched already
ServerLinksBack ==
  \E k \in 1..(Len(fetches) - 1) :
    catalog[fetches[k]].next \in {fetches[j] : j \in 1..k}

\* C12 as stated: the pages of a walk are fetched in the order of the next
\* links and no page is fetched twice, whatever the server links to
C12_Orig == FollowsLinks /\ NoRefetch

\* C12 as amended: the pages of a walk are fetched in the order of the next
\* links; a page is fetched twice exactly when a next link the walk followed
\* names a page fetched before
C12_FollowsLinks == FollowsLinks /\ (NoRefetch <=> ~ServerLinksBack)

\* C12 witness: the walk went from the listing page to another page and,
\* by that page's next link, back to the listing page
C12_Witness ==
  /\ Len(fetches) = 3
  /\ fetches[2] # fetches[1]
  /\ fetches[3] = fetches[1]
  /\ pc = "items"

\* the pages the next links lead through from the listing URL, as far as the
\* server has served them and up to the first link back to one of them
RECURSIVE ChainFrom(_, _)
ChainFrom(p, seen) ==
  IF p = NoLink \/ p \notin DOMAIN catalog \/ p \in Range(seen) THEN seen
  ELSE ChainFrom(catalog[p].next, Append(seen, p))
ChainPages == ChainFrom(1, <<>>)
\* the catalog is a chain: no next link of these pages leads back to the
\* page that carries it or to a page before it
IsChain ==
  \A k \in 1..Len(ChainPages) :
    catalog[ChainPages[k]].next \notin {ChainPages[j] : j \in 1..k}
\* the songs of a chain catalog in catalog order
PageSongs(p) == [i \in 1..catalog[p].len |-> SongId(p, i)]
RECURSIVE SongsOf(_)
SongsOf(ps) ==
  IF ps = <<>> THEN <<>> ELSE PageSongs(Head(ps)) \o SongsOf(Tail(ps))
CatalogOrder == SongsOf(ChainPages)
\* the position in a sequence of songs of the first one recorded when the
\* walk started, or one past its end
FirstRecorded(o) ==
  IF \E k \in 1..Len(o) : o[k] \in DOMAIN dbAtStart
  THEN CHOOSE k \in 1..Len(o) :
         /\ o[k] \in DOMAIN dbAtStart
         /\ \A j \in 1..(k - 1) : o[j] \notin DOMAIN dbAtStart
  ELSE Len(o) + 1

C14_NameChoice ==
  d_out.done =>
    /\ ~d_entry.had_errors =>
         d_out.path = IF Rejectable(d_entry.cow) THEN None
                      ELSE Some(d_entry.cow)
    /\ d_entry.had_errors =>
         d_out.path = IF Rejectable(d_entry.name) THEN None
                      ELSE Some(d_entry.name)

\* C14 witness: an entry decoded without errors is left without a name
\* because its decoded text is rejected, though the container's reading of
\* it would have been accepted
C14_Witness ==
  /\ d_out.done
  /\ ~d_entry.had_errors
  /\ Rejectable(d_entry.cow)
  /\ ~Rejectable(d_entry.name)
  /\ ~d_out.path.some

\* the entries written so far under the filename f
WrittenAs(f) == {k \in SeenAs("written") : x_seen[k].file = f}
Latest(ks) == CHOOSE k \in ks : \A j \in ks : j <= k

\* C15: after download returns Ok, the files of <dest>/<song id> are the
\* ones it held before and the final components of the entries written,
\* each directly inside it, and a file holds the content of the last entry
\* written under its name, or what it held before when there is none
C15_FlattenOverwrite ==
  x_status = "ok" =>
    /\ DOMAIN x_files =
         DOMAIN x_old \cup {x_seen[k].file : k \in SeenAs("written")}
    /\ \A f \in DOMAIN x_files :
         /\ DirectChild(f)
         /\ x_files[f] = IF WrittenAs(f) = {} THEN x_old[f]
                         ELSE Latest(WrittenAs(f))

\* C15 witness: download returned Ok after two entries were written under
\* the name of a file left by an earlier download, which holds the second
C15_Witness ==
  /\ x_status = "ok"
  /\ OldName \in DOMAIN x_old
  /\ WrittenAs(OldName) = {1, 2}
  /\ x_files[OldName] = 2

\* C16 as stated: whatever the names of the entries, download ends by
\* returning Ok or Err, never by a panic
C16_Orig == x_pc = "done" => x_status \in {"ok", "err"}

\* a step of the running download_all
WalkStep ==
  \/ FetchPageOk
  \/ FetchPageErr
  \/ SongKnown
  \/ SongRequest
  \/ DownloadOk
  \/ DownloadErr
  \/ DownloadPanic
  \/ SetRecordOk
  \/ SetRecordErr
  \/ WarnFailed
  \/ NextPage
  \/ LastPage

\* C17 as stated, in the form a finite run refutes: on a chain catalog and
\* whatever the downloads come to, a walk that has not returned can take a
\* step, and it fetches each page of the chain at most once, so that it
\* returns no later than on the page without a next link
C17_Orig ==
  (run >= 1 /\ IsChain) =>
    /\ Returned \/ ENABLED WalkStep
    /\ NoRefetch
    /\ Len(fetches) <= Len(ChainPages) + 1

\* where a path lies: its normal components from the root, "." dropped and
\* ".." taken as the parent (the root is its own parent)
RECURSIVE Resolve(_, _, _)
Resolve(cs, k, stack) ==
  IF k > Len(cs) THEN stack
  ELSE LET c == cs[k] IN
       Resolve(cs, k + 1,
               CASE c.kind = "RootDir" -> <<>>
                 [] c.kind = "CurDir" -> stack
                 [] c.kind = "ParentDir" ->
                      IF stack = <<>> THEN stack
                      ELSE SubSeq(stack, 1, Len(stack) - 1)
                 [] OTHER -> Append(stack, c.text))
Location(path) == Resolve(Components(path), 1, <<>>)
\* the destination directory itself or anything below it
Under(path) ==
  /\ Len(Location(path)) >= Len(Location(Dest))
  /\ SubSeq(Location(path), 1, Len(Location(Dest))) = Location(Dest)

\* C18 as stated, in its weakest reading: whatever the id the listing
\* server gives, the directory of the song does not lie outside the
\* destination directory
C18_Orig == i_out.done => Under(i_out.dest)

\* C19: db.set is reached only for a song without a record, at the start of
\* the walk and now; no step removes a record or changes its timestamp, so
\* the records the walk started with are in the store as they were
C19_RecordsKept ==
  [][ /\ (pc = "downloaded" /\ dl = "ok") =>
           /\ song \notin DOMAIN db
           /\ song \notin DOMAIN dbAtStart
      /\ \A id \in DOMAIN db : id \in DOMAIN db' /\ db'[id] = db[id]
      /\ \A id \in DOMAIN dbAtStart' :
           id \in DOMAIN db' /\ db'[id] = dbAtStart'[id] ]_vars

\* C19 witness: a walk that started with a record wrote two more and
\* returned
C19_Witness ==
  /\ Returned
  /\ dbAtStart # EmptyDb
  /\ Cardinality(DOMAIN db \ DOMAIN dbAtStart) >= 2
====
